---- MODULE Spec2Model ----
(***************************************************************************)
(* Model of src/code_explainer/code_explainer.py: the JSON code-snippet    *)
(* extractor (extract_code_from_json), normalize_code and the request      *)
(* handler explain_json_route.                                             *)
(*                                                                         *)
(* Python values are tagged records [t, v].  A Python str is a sequence of *)
(* one-character strings, so that strip, split, len, slicing and the       *)
(* regular-expression search are computed rather than assumed.  A dict is  *)
(* the sequence of its entries [k, v] in insertion order.                  *)
(***************************************************************************)
EXTENDS Integers, Sequences, FiniteSets, TLC

VARIABLES pc, body, payload, code_path, cur, code_value, used_path,
          auto_path, language, resp, gen_called, response, produced_by

vars == <<pc, body, payload, code_path, cur, code_value, used_path,
          auto_path, language, resp, gen_called, response, produced_by>>

-----------------------------------------------------------------------------
(* Python values *)

JNull == [t |-> "null", v |-> <<>>]
JBool(b) == [t |-> "bool", v |-> b]
JNum(n) == [t |-> "num", v |-> n]
JStr(s) == [t |-> "str", v |-> s]
JList(xs) == [t |-> "list", v |-> xs]
JDict(es) == [t |-> "dict", v |-> es]
Entry(k, x) == [k |-> k, v |-> x]

\* Python truthiness of a JSON value (`if cur:`, `if not code_value`).
Truthy(x) ==
    CASE x.t = "null" -> FALSE
      [] x.t = "bool" -> x.v
      [] x.t = "num" -> x.v # 0
      [] OTHER -> Len(x.v) > 0

HasKey(d, k) == \E i \in 1..Len(d.v) : d.v[i].k = k

\* dict.get(k) and dict.get(k, default)
DictGetDefault(d, k, default) ==
    IF HasKey(d, k)
    THEN d.v[CHOOSE i \in 1..Len(d.v) : d.v[i].k = k].v
    ELSE default

DictGet(d, k) == DictGetDefault(d, k, JNull)

-----------------------------------------------------------------------------
(* Text *)

Whitespace == {" ", "\n", "\t"}
UpperSeq == <<"A", "B", "C", "D", "E", "F", "G", "H", "I", "J", "K", "L", "M",
              "N", "O", "P", "Q", "R", "S", "T", "U", "V", "W", "X", "Y", "Z">>
LowerSeq == <<"a", "b", "c", "d", "e", "f", "g", "h", "i", "j", "k", "l", "m",
              "n", "o", "p", "q", "r", "s", "t", "u", "v", "w", "x", "y", "z">>
DigitSeq == <<"0", "1", "2", "3", "4", "5", "6", "7", "8", "9">>

Range(f) == {f[i] : i \in DOMAIN f}
IsDigit(c) == c \in Range(DigitSeq)
\* \w of the re module, on the ASCII characters the model draws from
IsWordChar(c) == c \in Range(UpperSeq) \cup Range(LowerSeq) \cup Range(DigitSeq) \cup {"_"}

Lower(c) ==
    IF c \in Range(UpperSeq)
    THEN LowerSeq[CHOOSE i \in 1..Len(UpperSeq) : UpperSeq[i] = c]
    ELSE c

RECURSIVE Flatten(_)
Flatten(ss) == IF Len(ss) = 0 THEN <<>> ELSE Head(ss) \o Flatten(Tail(ss))

\* str.strip()
strip(s) ==
    LET keep == {i \in 1..Len(s) : s[i] \notin Whitespace}
    IN  IF keep = {} THEN <<>>
        ELSE LET first == CHOOSE i \in keep : \A j \in keep : i <= j
                 last == CHOOSE i \in keep : \A j \in keep : j <= i
             IN  SubSeq(s, first, last)

\* str.count("\n")
count_newlines(s) == Cardinality({i \in 1..Len(s) : s[i] = "\n"})

\* sep.join(tokens)
RECURSIVE join(_, _)
join(sep, tokens) ==
    IF Len(tokens) = 0 THEN <<>>
    ELSE IF Len(tokens) = 1 THEN tokens[1]
    ELSE tokens[1] \o sep \o join(sep, Tail(tokens))

\* str.split(sep) for a one-character separator
RECURSIVE split(_, _)
split(s, sep) ==
    IF \A i \in 1..Len(s) : s[i] # sep THEN <<s>>
    ELSE LET i == CHOOSE j \in 1..Len(s) : s[j] = sep /\ \A k \in 1..(j - 1) : s[k] # sep
         IN  <<SubSeq(s, 1, i - 1)>> \o split(SubSeq(s, i + 1, Len(s)), sep)

\* str(i) for an integer
RECURSIVE NatToStr(_)
NatToStr(n) ==
    IF n < 10 THEN <<DigitSeq[n + 1]>>
    ELSE NatToStr(n \div 10) \o <<DigitSeq[(n % 10) + 1]>>

IntToStr(n) == IF n < 0 THEN <<"-">> \o NatToStr(-n) ELSE NatToStr(n)

DigitValue(c) == (CHOOSE i \in 1..10 : DigitSeq[i] = c) - 1

RECURSIVE DigitsToNat(_)
DigitsToNat(ds) ==
    IF Len(ds) = 0 THEN 0
    ELSE 10 * DigitsToNat(SubSeq(ds, 1, Len(ds) - 1)) + DigitValue(ds[Len(ds)])

\* int(s): surrounding whitespace, an optional sign, digits with single
\* underscores between them.  [ok |-> FALSE] stands for ValueError.
int(s) ==
    LET t == strip(s)
        signed == Len(t) > 0 /\ t[1] \in {"+", "-"}
        d == IF signed THEN Tail(t) ELSE t
        wellformed ==
            /\ Len(d) > 0
            /\ \A i \in 1..Len(d) : IsDigit(d[i]) \/ d[i] = "_"
            /\ IsDigit(d[1]) /\ IsDigit(d[Len(d)])
            /\ \A i \in 1..(Len(d) - 1) : ~(d[i] = "_" /\ d[i + 1] = "_")
        digits == SelectSeq(d, IsDigit)
    IN  IF ~wellformed THEN [ok |-> FALSE, n |-> 0]
        ELSE [ok |-> TRUE,
              n |-> IF signed /\ t[1] = "-" THEN -DigitsToNat(digits)
                    ELSE DigitsToNat(digits)]

-----------------------------------------------------------------------------
(* Literals *)

K_payload == <<"p", "a", "y", "l", "o", "a", "d">>
K_code_path == <<"c", "o", "d", "e", "_", "p", "a", "t", "h">>
K_language == <<"l", "a", "n", "g", "u", "a", "g", "e">>
K_code == <<"c", "o", "d", "e">>
K_source == <<"s", "o", "u", "r", "c", "e">>
K_snippet == <<"s", "n", "i", "p", "p", "e", "t">>
K_text == <<"t", "e", "x", "t">>
K_data == <<"d", "a", "t", "a">>
K_result == <<"r", "e", "s", "u", "l", "t">>
K_answer == <<"a", "n", "s", "w", "e", "r">>
S_def == <<"d", "e", "f", " ", "f", "(", "x", ")", ":", "\n", " ", " ", " ", " ", "r", "e", "t", "u", "r", "n", " ", "x", "+", "1">>
S_prose == <<"h", "e", "l", "l", "o", " ", "w", "o", "r", "l", "d">>
S_print == <<"p", "r", "i", "n", "t", "(", "x", "+", "y", ")">>
S_x1 == <<"x", " ", "=", " ", "1">>
S_y2 == <<"y", " ", "=", " ", "2">>
S_padshort == <<" ", " ", " ", "x", " ", "=", " ", "1", " ", " ", " ", " ", " ">>
S_padprose == <<" ", " ", "h", "e", "l", "l", "o", " ", "w", "o", "r", "l", "d", "\n">>
S_two == <<"a", " ", "=", " ", "1", "\n", "b", " ", "=", " ", "2">>
S_three == <<"a", " ", "=", " ", "1", "\n", "b", " ", "=", " ", "2", "\n", "c", " ", "=", " ", "3">>
S_python == <<"p", "y", "t", "h", "o", "n">>
S_unspecified == <<"u", "n", "s", "p", "e", "c", "i", "f", "i", "e", "d">>
S_trunc == <<"\n", ".", ".", ".", " ", "(", "t", "r", "u", "n", "c", "a", "t", "e", "d", ")">>
S_True == <<"T", "r", "u", "e">>
S_False == <<"F", "a", "l", "s", "e">>
S_None == <<"N", "o", "n", "e">>
P_result_answer == <<"r", "e", "s", "u", "l", "t", ".", "a", "n", "s", "w", "e", "r">>
P_data_2 == <<"d", "a", "t", "a", ".", "[", "2", "]">>
P_data_9 == <<"d", "a", "t", "a", ".", "[", "9", "]">>
P_data_m1 == <<"d", "a", "t", "a", ".", "[", "-", "1", "]">>
P_code == <<"c", "o", "d", "e">>
P_missing == <<"m", "i", "s", "s", "i", "n", "g">>
P_code_x == <<"c", "o", "d", "e", ".", "x">>
P_data_br == <<"d", "a", "t", "a", ".", "[", "]">>
P_result == <<"r", "e", "s", "u", "l", "t">>
P_idx0 == <<"[", "0", "]">>

-----------------------------------------------------------------------------
(* CODE_TOKEN_RE *)

MIN_CODE_LEN == 10
NEWLINE_SCORE == 10
TOKEN_SCORE == 20
PREVIEW_LIMIT == 2000

\* The alternatives of the pattern that are plain literals (lower case; the
\* pattern is compiled with re.IGNORECASE).
CodeWords ==
    { <<"d", "e", "f">>, <<"c", "l", "a", "s", "s">>,
      <<"f", "u", "n", "c", "t", "i", "o", "n">>, <<"c", "o", "n", "s", "t">>,
      <<"l", "e", "t">>, <<"v", "a", "r">>, <<"i", "m", "p", "o", "r", "t">>,
      <<"f", "r", "o", "m">>, <<"p", "u", "b", "l", "i", "c">>,
      <<"p", "r", "i", "v", "a", "t", "e">>, <<"=", ">">>,
      <<"c", "o", "n", "s", "o", "l", "e", ".", "l", "o", "g">>,
      <<"p", "r", "i", "n", "t", "(">>, <<"p", "r", "i", "n", "t", "l", "n", "(">> }

\* The alternatives of the form  word\s*\(
CodeOpeners == { <<"i", "f">>, <<"f", "o", "r">>, <<"w", "h", "i", "l", "e">> }

\* \b between s[i-1] and s[i]
WordBoundaryAt(s, i) ==
    LET before == i > 1 /\ IsWordChar(s[i - 1])
        after == i <= Len(s) /\ IsWordChar(s[i])
    IN  before # after

LiteralAt(s, i, w) ==
    /\ i + Len(w) - 1 <= Len(s)
    /\ \A k \in 1..Len(w) : Lower(s[i + k - 1]) = w[k]

OpenerAt(s, i, w) ==
    /\ LiteralAt(s, i, w)
    /\ \E j \in (i + Len(w))..Len(s) :
          /\ s[j] = "("
          /\ \A k \in (i + Len(w))..(j - 1) : s[k] \in Whitespace

\* CODE_TOKEN_RE.search(s) is not None
CODE_TOKEN_RE_search(s) ==
    \E i \in 1..Len(s) :
        /\ WordBoundaryAt(s, i)
        /\ \/ \E w \in CodeWords : LiteralAt(s, i, w)
           \/ \E w \in CodeOpeners : OpenerAt(s, i, w)

-----------------------------------------------------------------------------
(* extract_code_from_json *)

score_of(s) ==
    count_newlines(s) * NEWLINE_SCORE + (IF CODE_TOKEN_RE_search(s) THEN TOKEN_SCORE ELSE 0)

\* variant: indices counted from 1
index_token_one_based(i) == <<"[">> \o IntToStr(i + 1) \o <<"]">>

\* f"[{i}]"
index_token(i) == <<"[">> \o IntToStr(i) \o <<"]">>

\* walk(o, path_tokens): the candidates it appends, in the order it appends them
RECURSIVE walk(_, _)
walk(o, path_tokens) ==
    IF o.t = "dict"
    THEN Flatten([i \in 1..Len(o.v) |-> walk(o.v[i].v, Append(path_tokens, o.v[i].k))])
    ELSE IF o.t = "list"
    THEN Flatten([i \in 1..Len(o.v) |-> walk(o.v[i], Append(path_tokens, index_token(i - 1)))])
    ELSE IF o.t = "str"
    THEN LET s == strip(o.v)
         IN  IF Len(s) < MIN_CODE_LEN THEN <<>>
             ELSE <<[score |-> score_of(s), text |-> s, path |-> path_tokens]>>
    ELSE <<>>

\* variant: a sort that puts the later of two equal scores first
RECURSIVE sort_by_score_desc_unstable(_)
sort_by_score_desc_unstable(c) ==
    IF Len(c) <= 1 THEN c
    ELSE LET h == Head(c)
             rest == sort_by_score_desc_unstable(Tail(c))
             k == Cardinality({i \in 1..Len(rest) : rest[i].score >= h.score})
         IN  SubSeq(rest, 1, k) \o <<h>> \o SubSeq(rest, k + 1, Len(rest))

\* candidates.sort(key=lambda x: x[0], reverse=True): stable, descending
RECURSIVE sort_by_score_desc(_)
sort_by_score_desc(c) ==
    IF Len(c) <= 1 THEN c
    ELSE LET h == Head(c)
             rest == sort_by_score_desc(Tail(c))
             k == Cardinality({i \in 1..Len(rest) : rest[i].score > h.score})
         IN  SubSeq(rest, 1, k) \o <<h>> \o SubSeq(rest, k + 1, Len(rest))

\* returns (code, path_str); (None, None) is [code |-> JNull, path |-> JNull]
extract_code_from_json(obj) ==
    LET candidates == walk(obj, <<>>)
    IN  IF Len(candidates) = 0 THEN [code |-> JNull, path |-> JNull]
        ELSE LET best == sort_by_score_desc(candidates)[1]
             IN  [code |-> JStr(best.text), path |-> JStr(join(<<".">>, best.path))]

-----------------------------------------------------------------------------
(* normalize_code *)

\* repr() of a str: quote choice and the escapes of the characters modelled
repr_str(s) ==
    LET q == IF (\E i \in 1..Len(s) : s[i] = "'") /\ ~(\E i \in 1..Len(s) : s[i] = "\"")
             THEN "\"" ELSE "'"
        esc(c) == IF c = "\\" THEN <<"\\", "\\">>
                  ELSE IF c = "\n" THEN <<"\\", "n">>
                  ELSE IF c = "\t" THEN <<"\\", "t">>
                  ELSE IF c = q THEN <<"\\", c>>
                  ELSE <<c>>
    IN  <<q>> \o Flatten([i \in 1..Len(s) |-> esc(s[i])]) \o <<q>>

RECURSIVE repr(_)
repr(x) ==
    CASE x.t = "null" -> S_None
      [] x.t = "bool" -> IF x.v THEN S_True ELSE S_False
      [] x.t = "num" -> IntToStr(x.v)
      [] x.t = "str" -> repr_str(x.v)
      [] x.t = "list" ->
            <<"[">> \o join(<<",", " ">>, [i \in 1..Len(x.v) |-> repr(x.v[i])]) \o <<"]">>
      [] x.t = "dict" ->
            <<"{">> \o join(<<",", " ">>,
                           [i \in 1..Len(x.v) |->
                               repr_str(x.v[i].k) \o <<":", " ">> \o repr(x.v[i].v)])
                   \o <<"}">>

\* str(x)
str(x) == IF x.t = "str" THEN x.v ELSE repr(x)

\* isinstance(x, (str, int, float)); bool is a subclass of int
is_str_int_float(x) == x.t \in {"str", "num", "bool"}

normalize_code(value) ==
    IF value.t = "null" THEN JNull
    ELSE IF value.t = "str" THEN value
    ELSE IF value.t = "list"
    THEN JStr(join(<<"\n">>, [i \in 1..Len(SelectSeq(value.v, is_str_int_float)) |->
                                 str(SelectSeq(value.v, is_str_int_float)[i])]))
    ELSE JStr(str(value))

-----------------------------------------------------------------------------
(* explain_json_route: the steps of one request *)

None == JNull

Error400(msg) == [kind |-> "error", status |-> 400, error |-> msg]
\* an exception that leaves the view function: the framework answers 500
Unhandled500(where) == [kind |-> "unhandled", status |-> 500, error |-> where]
Pending == [kind |-> "pending", status |-> 0, error |-> ""]

\* cur[n] for an int n; ok = FALSE is IndexError, KeyError or TypeError
subscript(c, n) ==
    IF c.t \notin {"list", "str"} THEN [ok |-> FALSE, cur |-> c]
    ELSE IF n >= Len(c.v) \/ n < -Len(c.v) THEN [ok |-> FALSE, cur |-> c]
    ELSE LET at == IF n >= 0 THEN n + 1 ELSE Len(c.v) + n + 1
         IN  [ok |-> TRUE, cur |-> IF c.t = "list" THEN c.v[at] ELSE JStr(<<c.v[at]>>)]

\* one segment of the explicit path applied to cur; ok = FALSE is an exception
path_step(c, p) ==
    IF Len(p) > 0 /\ p[1] = "[" /\ p[Len(p)] = "]"
    THEN CHOOSE r \in {IF n.ok THEN subscript(c, n.n) ELSE [ok |-> FALSE, cur |-> c] :
                          n \in {int(SubSeq(p, 2, Len(p) - 1))}} : TRUE
    ELSE IF c.t = "dict" THEN [ok |-> TRUE, cur |-> DictGet(c, p)]
    ELSE [ok |-> FALSE, cur |-> c]

\* for p in parts: ...; the value reached, or the exception
RECURSIVE walk_path(_, _)
walk_path(c, parts) ==
    IF Len(parts) = 0 THEN [ok |-> TRUE, cur |-> c]
    ELSE CHOOSE r \in {IF s.ok THEN walk_path(s.cur, Tail(parts)) ELSE s :
                           s \in {path_step(c, Head(parts))}} : TRUE

\* variant: the common-field loop runs whatever the explicit path gave
common_fields_skipped_always(value) == FALSE

\* line 124: `if not code_value:` guards the common-field loop
common_fields_skipped(value) == Truthy(value)

\* variant: the Extractor's path is never stored
path_after_extract_stale(found, path, previous) == previous

\* lines 135-136: `if code_value: used_path = auto_path`
path_after_extract(found, path, previous) == IF Truthy(found) THEN path ELSE previous

COMMON_FIELDS == <<K_code, K_source, K_snippet, K_text>>

\* body = request.get_json(silent=True) ... code_path = body.get("code_path") or None
Receive ==
    /\ pc = "receive"
    /\ IF ~Truthy(body)
       THEN /\ response' = Error400("Invalid request")
            /\ pc' = "done"
            /\ UNCHANGED <<payload, code_path>>
       ELSE IF body.t # "dict"
       THEN /\ response' = Unhandled500("body.get")
            /\ pc' = "done"
            /\ UNCHANGED <<payload, code_path>>
       ELSE /\ payload' = DictGetDefault(body, K_payload, body)
            /\ code_path' = (IF Truthy(DictGet(body, K_code_path))
                             THEN DictGet(body, K_code_path) ELSE None)
            /\ pc' = "explicit"
            /\ UNCHANGED response
    /\ UNCHANGED <<body, cur, code_value, used_path, auto_path, language, resp, gen_called,
                   produced_by>>

\* Try explicit path
TryExplicitPath ==
    /\ pc = "explicit"
    /\ IF Truthy(code_path)
       THEN LET w == walk_path(payload, split(code_path.v, "."))
            IN  /\ cur' = w.cur
                /\ code_value' = (IF w.ok THEN normalize_code(w.cur) ELSE None)
                /\ used_path' = (IF w.ok THEN code_path ELSE None)
                /\ produced_by' = (IF w.ok /\ Truthy(normalize_code(w.cur))
                                   THEN "explicit" ELSE "none")
       ELSE /\ code_value' = None
            /\ used_path' = None
            /\ UNCHANGED <<cur, produced_by>>
    /\ pc' = "common"
    /\ UNCHANGED <<body, payload, code_path, auto_path, language, resp, gen_called, response>>

\* Try common fields
TryCommonFields ==
    /\ pc = "common"
    /\ IF common_fields_skipped(code_value)
       THEN /\ pc' = "auto"
            /\ UNCHANGED <<cur, code_value, used_path, produced_by, response>>
       ELSE IF payload.t # "dict"
       THEN /\ response' = Unhandled500("payload.get")
            /\ pc' = "done"
            /\ UNCHANGED <<cur, code_value, used_path, produced_by>>
       ELSE LET hits == {i \in 1..Len(COMMON_FIELDS) : Truthy(DictGet(payload, COMMON_FIELDS[i]))}
            IN  /\ IF hits = {}
                   THEN /\ cur' = DictGet(payload, COMMON_FIELDS[Len(COMMON_FIELDS)])
                        /\ UNCHANGED <<code_value, used_path, produced_by>>
                   ELSE LET i == CHOOSE h \in hits : \A g \in hits : h <= g
                            found == DictGet(payload, COMMON_FIELDS[i])
                        IN  /\ cur' = found
                            /\ code_value' = normalize_code(found)
                            /\ used_path' = JStr(COMMON_FIELDS[i])
                            /\ produced_by' = (IF Truthy(normalize_code(found))
                                               THEN "common" ELSE produced_by)
                /\ pc' = "auto"
                /\ UNCHANGED response
    /\ UNCHANGED <<body, payload, code_path, auto_path, language, resp, gen_called>>

\* Auto-extract
AutoExtract ==
    /\ pc = "auto"
    /\ IF Truthy(code_value)
       THEN UNCHANGED <<code_value, auto_path, used_path, produced_by>>
       ELSE LET r == extract_code_from_json(payload)
            IN  /\ code_value' = r.code
                /\ auto_path' = r.path
                /\ used_path' = path_after_extract(r.code, r.path, used_path)
                /\ produced_by' = (IF Truthy(r.code) THEN "auto" ELSE produced_by)
    /\ pc' = "check"
    /\ UNCHANGED <<body, payload, code_path, cur, language, resp, gen_called, response>>

\* if not code_value: return "No code found"; language = ...
CheckFound ==
    /\ pc = "check"
    /\ IF ~Truthy(code_value)
       THEN /\ response' = Error400("No code found")
            /\ pc' = "done"
            /\ UNCHANGED language
       ELSE /\ language' = (IF Truthy(DictGet(body, K_language))
                            THEN DictGet(body, K_language) ELSE JStr(S_unspecified))
            /\ pc' = "generate"
            /\ UNCHANGED response
    /\ UNCHANGED <<body, payload, code_path, cur, code_value, used_path, auto_path,
                   resp, gen_called, produced_by>>

S_line1 == <<"L", "i", "n", "e", " ", "1", ":", " ", "x">>
S_resp_repr == <<"<", "G", "e", "n", "e", "r", "a", "t", "e", "C", "o", "n", "t", "e", "n", "t", "R", "e", "s", "p", "o", "n", "s", "e", ">">>
S_ab == <<"a", "b">>
S_cd == <<"c", "d">>
K_content == <<"c", "o", "n", "t", "e", "n", "t">>

\* What client.models.generate_content can hand back: an object with or
\* without the attributes text and outputs.
GenResponse(has_text, text, has_outputs, outputs) ==
    [has_text |-> has_text, text |-> text, has_outputs |-> has_outputs, outputs |-> outputs]

NoResponse == GenResponse(FALSE, None, FALSE, None)

GenResponses ==
    { GenResponse(TRUE, JStr(S_line1), FALSE, None),
      GenResponse(TRUE, JStr(<<>>), FALSE, None),
      GenResponse(TRUE, None, FALSE, None),
      GenResponse(TRUE, None, TRUE,
                  JList(<<JDict(<<Entry(K_content,
                                        JList(<<JDict(<<Entry(K_text, JStr(S_ab))>>),
                                                JStr(S_cd)>>))>>)>>)),
      GenResponse(TRUE, None, TRUE, JList(<<JDict(<<Entry(K_text, JStr(S_line1))>>)>>)),
      GenResponse(TRUE, None, TRUE, JList(<<>>)),
      GenResponse(FALSE, None, TRUE, JList(<<JNum(1)>>)) }

\* ''.join(c.get('text','') if isinstance(c, dict) else str(c) for c in content);
\* ok = FALSE is an exception (content not iterable, or a piece that is no str)
join_content(content) ==
    IF content.t # "list" THEN [ok |-> FALSE, text |-> <<>>]
    ELSE LET piece(c) == IF c.t = "dict" THEN DictGetDefault(c, K_text, JStr(<<>>))
                         ELSE JStr(str(c))
         IN  IF \E i \in 1..Len(content.v) : piece(content.v[i]).t # "str"
             THEN [ok |-> FALSE, text |-> <<>>]
             ELSE [ok |-> TRUE,
                   text |-> Flatten([i \in 1..Len(content.v) |-> piece(content.v[i]).v])]

\* lines 156-167
explanation_of(r) ==
    IF r.has_text /\ Truthy(r.text) THEN r.text
    ELSE IF r.has_outputs
    THEN IF r.outputs.t # "list" \/ Len(r.outputs.v) = 0 THEN JStr(S_resp_repr)
         ELSE LET first == r.outputs.v[1]
              IN  IF first.t = "dict" /\ HasKey(first, K_content)
                  THEN LET j == join_content(DictGet(first, K_content))
                       IN  IF j.ok THEN JStr(j.text) ELSE JStr(S_resp_repr)
                  ELSE IF first.t = "dict" /\ HasKey(first, K_text)
                  THEN DictGet(first, K_text)
                  ELSE JStr(<<>>)
    ELSE JStr(<<>>)

\* variant: `<` in place of `<=`
preview_of_strict(code) ==
    IF Len(code) < PREVIEW_LIMIT THEN code
    ELSE SubSeq(code, 1, PREVIEW_LIMIT) \o S_trunc

\* line 174
preview_of(code) ==
    IF Len(code) <= PREVIEW_LIMIT THEN code
    ELSE SubSeq(code, 1, PREVIEW_LIMIT) \o S_trunc

Success(path, preview, lang, explanation) ==
    [kind |-> "ok", status |-> 200, error |-> "", extracted_path |-> path,
     extracted_preview |-> preview, language |-> lang, explanation |-> explanation]

\* resp = client.models.generate_content(...): it returns or it raises
Generate ==
    /\ pc = "generate"
    /\ gen_called' = TRUE
    /\ \/ /\ \E r \in GenResponses : resp' = r
          /\ pc' = "respond"
          /\ UNCHANGED response
       \/ /\ response' = Unhandled500("generate_content")
          /\ pc' = "done"
          /\ UNCHANGED resp
    /\ UNCHANGED <<body, payload, code_path, cur, code_value, used_path, auto_path,
                   language, produced_by>>

\* lines 156-180
Respond ==
    /\ pc = "respond"
    /\ response' = Success(used_path, JStr(preview_of(code_value.v)), language,
                           explanation_of(resp))
    /\ pc' = "done"
    /\ UNCHANGED <<body, payload, code_path, cur, code_value, used_path, auto_path,
                   language, resp, gen_called, produced_by>>

-----------------------------------------------------------------------------
(* Requests *)

MaxFields == 2
MaxLen == 3
MaxItems == 2

LongCode(n) == [i \in 1..n |-> IF i <= Len(S_print) THEN S_print[i] ELSE "x"]

FieldPool ==
    { Entry(K_code, JStr(S_print)),
      Entry(K_code, JStr(<<>>)),
      Entry(K_code, JNull),
      Entry(K_code, JList(<<JBool(TRUE), JStr(S_x1)>>)),
      Entry(K_code, JList(<<JNull>>)),
      Entry(K_source, JNum(7)),
      Entry(K_text, JStr(S_def)),
      Entry(K_data, JList(<<JStr(S_x1), JStr(S_y2), JStr(S_print)>>)),
      Entry(K_data, JList(<<JStr(S_three), JStr(S_print)>>)),
      Entry(K_result, JDict(<<Entry(K_answer, JStr(S_def))>>)) }

\* the entry sequences of a mapping: at most n entries, keys distinct
RECURSIVE FieldSeqs(_, _)
FieldSeqs(pool, n) ==
    IF n = 0 THEN {<<>>}
    ELSE LET shorter == FieldSeqs(pool, n - 1)
         IN  shorter \cup
             {Append(s, e) : <<s, e>> \in
                 {x \in shorter \X pool : \A i \in 1..Len(x[1]) : x[1][i].k # x[2].k}}

MappingPayloads == {JDict(s) : s \in FieldSeqs(FieldPool, MaxFields)}

\* payloads whose code is as long as the preview limit, and one longer
LongPayloads ==
    { JDict(<<Entry(K_snippet, JStr(LongCode(PREVIEW_LIMIT)))>>),
      JDict(<<Entry(K_text, JStr(LongCode(PREVIEW_LIMIT + 1)))>>),
      JDict(<<Entry(K_data, JList(<<JStr(LongCode(PREVIEW_LIMIT + 1))>>))>>) }

OtherPayloads == {JList(<<JStr(S_def)>>), JStr(S_def), JNull, JNum(5)}

CodePaths ==
    { P_result_answer, P_data_2, P_data_9, P_data_m1, P_code, P_missing, P_code_x,
      P_data_br, P_result, P_idx0, <<>> }

CodePathOptions == {<<>>} \cup {<<Entry(K_code_path, JStr(p))>> : p \in CodePaths}
LanguageOptions == {<<>>, <<Entry(K_language, JStr(S_python))>>}

\* what request.get_json(silent=True) returns: None for a body that does not
\* parse, else the parsed value
Bodies ==
    { JNull, JList(<<>>), JList(<<JNum(1)>>), JStr(S_def), JStr(<<>>), JNum(0), JNum(5),
      JBool(TRUE), JBool(FALSE), JDict(<<>>) }
    \cup {JDict(<<Entry(K_payload, p)>> \o c) :
             p \in MappingPayloads \cup OtherPayloads, c \in CodePathOptions}
    \cup {JDict(<<Entry(K_payload, p)>>) : p \in LongPayloads}
    \cup {JDict(f \o c \o l) :
             f \in FieldSeqs(FieldPool, 1), c \in CodePathOptions, l \in LanguageOptions}

Init ==
    /\ pc = "receive"
    /\ body \in Bodies
    /\ payload = None
    /\ code_path = None
    /\ cur = None
    /\ code_value = None
    /\ used_path = None
    /\ auto_path = None
    /\ language = None
    /\ resp = NoResponse
    /\ gen_called = FALSE
    /\ response = Pending
    /\ produced_by = "none"

Next ==
    \/ Receive
    \/ TryExplicitPath
    \/ TryCommonFields
    \/ AutoExtract
    \/ CheckFound
    \/ Generate
    \/ Respond

Spec == Init /\ [][Next]_vars

-----------------------------------------------------------------------------
(* extract_code_from_json on its own *)

Leaves ==
    { JNull, JStr(S_padshort), JStr(S_prose), JStr(S_print), JStr(S_three), JStr(S_def) }

Items ==
    Leaves
    \cup { JList(<<JStr(S_x1), JStr(S_padprose)>>), JList(<<JStr(S_def)>>),
           JDict(<<Entry(K_answer, JStr(S_two))>>) }

RECURSIVE SeqsUpTo(_, _)
SeqsUpTo(S, n) ==
    IF n = 0 THEN {<<>>}
    ELSE LET shorter == SeqsUpTo(S, n - 1)
         IN  shorter \cup {Append(s, e) : <<s, e>> \in shorter \X S}

ExtractInputs ==
    Items
    \cup {JList(s) : s \in SeqsUpTo(Items, MaxLen)}
    \cup {JDict(s) : s \in FieldSeqs({Entry(k, x) : k \in {K_data, K_result}, x \in Items}, MaxLen)}

InitExtract ==
    /\ pc = "extract"
    /\ payload \in ExtractInputs
    /\ body = None
    /\ code_path = None
    /\ cur = None
    /\ code_value = None
    /\ used_path = None
    /\ auto_path = None
    /\ language = None
    /\ resp = NoResponse
    /\ gen_called = FALSE
    /\ response = Pending
    /\ produced_by = "none"

ExtractStep ==
    /\ pc = "extract"
    /\ LET r == extract_code_from_json(payload)
       IN  /\ code_value' = r.code
           /\ auto_path' = r.path
    /\ pc' = "extracted"
    /\ UNCHANGED <<body, payload, code_path, cur, used_path, language, resp, gen_called,
                   response, produced_by>>

NextExtract == ExtractStep

ExtractSpec == InitExtract /\ [][NextExtract]_vars

-----------------------------------------------------------------------------
(* normalize_code on its own *)

NormalizeItems ==
    { JNull, JBool(TRUE), JBool(FALSE), JNum(0), JNum(12), JNum(-3), JStr(<<>>),
      JStr(S_x1), JStr(S_two), JList(<<JStr(S_x1)>>), JDict(<<>>),
      JDict(<<Entry(K_code, JStr(S_two))>>) }

NormalizeInputs == NormalizeItems \cup {JList(s) : s \in SeqsUpTo(NormalizeItems, MaxItems)}

InitNormalize ==
    /\ pc = "normalize"
    /\ cur \in NormalizeInputs
    /\ body = None
    /\ payload = None
    /\ code_path = None
    /\ code_value = None
    /\ used_path = None
    /\ auto_path = None
    /\ language = None
    /\ resp = NoResponse
    /\ gen_called = FALSE
    /\ response = Pending
    /\ produced_by = "none"

NormalizeStep ==
    /\ pc = "normalize"
    /\ code_value' = normalize_code(cur)
    /\ pc' = "normalized"
    /\ UNCHANGED <<body, payload, code_path, cur, used_path, auto_path, language, resp,
                   gen_called, response, produced_by>>

NextNormalize == NormalizeStep

NormalizeSpec == InitNormalize /\ [][NextNormalize]_vars

-----------------------------------------------------------------------------
(* Properties of extract_code_from_json (ExtractSpec) *)

\* the positions of a value: the child numbers from the root, <<>> the root
RECURSIVE Positions(_)
Positions(o) ==
    IF o.t = "list"
    THEN {<<>>} \cup UNION {{<<i>> \o p : p \in Positions(o.v[i])} : i \in 1..Len(o.v)}
    ELSE IF o.t = "dict"
    THEN {<<>>} \cup UNION {{<<i>> \o p : p \in Positions(o.v[i].v)} : i \in 1..Len(o.v)}
    ELSE {<<>>}

RECURSIVE ValueAt(_, _)
ValueAt(o, pos) ==
    IF Len(pos) = 0 THEN o
    ELSE IF o.t = "dict" THEN ValueAt(o.v[Head(pos)].v, Tail(pos))
    ELSE ValueAt(o.v[Head(pos)], Tail(pos))

\* the path string of a position: keys and [i] tokens, each followed by "."
\* except the last
RECURSIVE PathString(_, _)
PathString(o, pos) ==
    IF Len(pos) = 0 THEN <<>>
    ELSE LET token == IF o.t = "dict" THEN o.v[Head(pos)].k
                      ELSE <<"[">> \o IntToStr(Head(pos) - 1) \o <<"]">>
             child == IF o.t = "dict" THEN o.v[Head(pos)].v ELSE o.v[Head(pos)]
         IN  IF Len(pos) = 1 THEN token
             ELSE token \o <<".">> \o PathString(child, Tail(pos))

\* depth-first pre-order is the lexicographic order of positions
RECURSIVE Before(_, _)
Before(p, q) ==
    IF Len(p) = 0 THEN Len(q) > 0
    ELSE IF Len(q) = 0 THEN FALSE
    ELSE IF Head(p) # Head(q) THEN Head(p) < Head(q)
    ELSE Before(Tail(p), Tail(q))

Qualifying(o) ==
    {p \in Positions(o) : ValueAt(o, p).t = "str" /\ Len(strip(ValueAt(o, p).v)) >= 10}

StatedScore(o, p) ==
    LET s == strip(ValueAt(o, p).v)
    IN  10 * count_newlines(s) + (IF CODE_TOKEN_RE_search(s) THEN 20 ELSE 0)

\* C6: for a value with at least one qualifying string leaf, the extractor
\* returns the leaf of maximal score, and among the leaves of that score the
\* one met first in the depth-first pre-order traversal.
C6_MaxScoreFirstWins ==
    (pc = "extracted" /\ Qualifying(payload) # {}) =>
        \E p \in Qualifying(payload) :
            /\ \A q \in Qualifying(payload) :
                  \/ StatedScore(payload, q) < StatedScore(payload, p)
                  \/ StatedScore(payload, q) = StatedScore(payload, p) /\ ~Before(q, p)
            /\ code_value = JStr(strip(ValueAt(payload, p).v))
            /\ auto_path = JStr(PathString(payload, p))

\* a lower-scored leaf comes first, and two later leaves tie at the top score
C6_Witness ==
    /\ pc = "extracted"
    /\ \E p, q, r \in Qualifying(payload) :
          /\ Before(r, p) /\ Before(p, q)
          /\ StatedScore(payload, r) < StatedScore(payload, p)
          /\ StatedScore(payload, p) = StatedScore(payload, q)
          /\ \A x \in Qualifying(payload) : StatedScore(payload, x) <= StatedScore(payload, p)
          /\ auto_path = JStr(PathString(payload, p))

\* C7: with exactly one qualifying leaf the extractor returns its trimmed
\* text and the path of keys and [i] tokens joined with "."; with none it
\* returns (None, None).
C7_SingleLeafAndPath ==
    pc = "extracted" =>
        /\ Qualifying(payload) = {} => code_value = None /\ auto_path = None
        /\ \A p \in Qualifying(payload) :
              Qualifying(payload) = {p} =>
                  /\ code_value = JStr(strip(ValueAt(payload, p).v))
                  /\ auto_path = JStr(PathString(payload, p))

\* the only qualifying leaf sits in a list under a mapping key, behind a
\* leaf that does not qualify, and had whitespace to trim
C7_Witness ==
    /\ pc = "extracted"
    /\ \E p \in Qualifying(payload) :
          /\ Qualifying(payload) = {p}
          /\ Len(p) = 2 /\ p[2] > 1
          /\ payload.t = "dict"
          /\ auto_path = JStr(K_data \o <<".", "[", "1", "]">>)
          /\ code_value = JStr(S_prose)

-----------------------------------------------------------------------------
(* Properties of explain_json_route (Spec) *)

\* what the explicit path reaches in the payload; read only when code_path is set
ExplicitWalk == walk_path(payload, split(code_path.v, "."))

ExplicitCompletes == Truthy(code_path) /\ ExplicitWalk.ok

ExplicitUsable == ExplicitCompletes /\ Truthy(normalize_code(ExplicitWalk.cur))

\* C1: when code_path resolves to a usable value and the payload also has a
\* truthy `code` field, the resolved code is the value at code_path, the
\* reported path is code_path, and neither the common-field lookup nor the
\* Extractor takes part.
C1_ExplicitPathWins ==
    (/\ pc \notin {"receive", "explicit"}
     /\ ExplicitUsable
     /\ payload.t = "dict"
     /\ Truthy(DictGet(payload, K_code))) =>
        /\ code_value = normalize_code(ExplicitWalk.cur)
        /\ used_path = code_path
        /\ cur = ExplicitWalk.cur
        /\ auto_path = None
        /\ produced_by = "explicit"
        /\ response # Error400("No code found")
        /\ response.kind = "ok" => response.extracted_path = code_path

\* a success whose code came from code_path and differs from the `code` field
C1_Witness ==
    /\ response.kind = "ok"
    /\ ExplicitUsable
    /\ payload.t = "dict"
    /\ Truthy(DictGet(payload, K_code))
    /\ code_value # normalize_code(DictGet(payload, K_code))
    /\ response.extracted_path = code_path

\* C2: when the walk of a non-empty code_path fails, the explicit path yields
\* no value, nothing is raised to the caller during resolution, and a valid
\* `code` field is then used with extracted_path `code`.
C2_ExplicitFailureRecovered ==
    (/\ pc \notin {"receive", "explicit"}
     /\ Truthy(code_path)
     /\ ~ExplicitWalk.ok) =>
        /\ pc = "common" => code_value = None /\ used_path = None
        /\ produced_by # "explicit"
        /\ response.kind = "unhandled" => response.error = "generate_content"
        /\ (/\ response.kind = "ok"
            /\ payload.t = "dict"
            /\ Truthy(DictGet(payload, K_code))
            /\ Truthy(normalize_code(DictGet(payload, K_code)))) =>
               /\ response.extracted_path = JStr(K_code)
               /\ code_value = normalize_code(DictGet(payload, K_code))

\* the payload and code_path of an accepted request, as functions of its body
PayloadOf(b) == DictGetDefault(b, K_payload, b)

CodePathOf(b) == IF Truthy(DictGet(b, K_code_path)) THEN DictGet(b, K_code_path) ELSE None

ExplicitYields(b) ==
    /\ Truthy(CodePathOf(b))
    /\ LET w == walk_path(PayloadOf(b), split(CodePathOf(b).v, "."))
       IN  w.ok /\ Truthy(normalize_code(w.cur))

CommonYields(b) ==
    /\ PayloadOf(b).t = "dict"
    /\ \E i \in 1..Len(COMMON_FIELDS) :
          /\ Truthy(normalize_code(DictGet(PayloadOf(b), COMMON_FIELDS[i])))
          /\ \A j \in 1..(i - 1) : ~Truthy(DictGet(PayloadOf(b), COMMON_FIELDS[j]))

ExtractorYields(b) == Truthy(extract_code_from_json(PayloadOf(b)).code)

\* C3: a request for which no strategy yields a usable string is answered
\* "No code found" without a call of the generation service, and the service
\* is called only after a non-empty code string has been resolved.
C3_NoCodeFound ==
    /\ (/\ pc = "done"
        /\ body.t = "dict" /\ Truthy(body)
        /\ ~ExplicitYields(body) /\ ~CommonYields(body) /\ ~ExtractorYields(body)) =>
           response = Error400("No code found") /\ ~gen_called
    /\ gen_called => code_value.t = "str" /\ Len(code_value.v) > 0

GenerationFailed ==
    /\ pc = "done"
    /\ gen_called
    /\ \/ resp = NoResponse
       \/ explanation_of(resp) \in {JStr(<<>>), JStr(S_resp_repr)}

\* C4: when the generation call raises or returns nothing usable, the request
\* ends with a structured error other than "No code found", never with a
\* success response.
C4_GenerationFailureSurfaced ==
    GenerationFailed => response.kind = "error" /\ response.error # "No code found"

\* C5: a body that is not a JSON mapping is rejected with "Invalid request"
\* before any resolution or generation; a body that is a mapping is not
\* rejected as malformed.
C5_MalformedRejected ==
    pc # "receive" =>
        /\ body.t # "dict" =>
              /\ response = Error400("Invalid request")
              /\ pc = "done"
              /\ ~gen_called
        /\ body.t = "dict" => response # Error400("Invalid request")

\* C9: the preview of a success response is the resolved code when that has
\* at most 2000 characters, else its first 2000 characters followed by the
\* truncation marker and nothing else.
C9_PreviewTruncation ==
    response.kind = "ok" =>
        LET code == code_value.v
            preview == response.extracted_preview.v
        IN  /\ Len(code) <= 2000 => preview = code
            /\ Len(code) > 2000 =>
                  /\ Len(preview) = 2000 + Len(S_trunc)
                  /\ \A i \in 1..2000 : preview[i] = code[i]
                  /\ \A i \in 1..Len(S_trunc) : preview[2000 + i] = S_trunc[i]

\* a success whose code is longer than the limit
C9_Witness ==
    /\ response.kind = "ok"
    /\ Len(code_value.v) > PREVIEW_LIMIT
    /\ Len(response.extracted_preview.v) < Len(code_value.v) + Len(S_trunc)

-----------------------------------------------------------------------------
(* Property of normalize_code (NormalizeSpec) *)

StatedNormalize(value) ==
    IF value.t = "null" THEN None
    ELSE IF value.t = "str" THEN value
    ELSE IF value.t = "list"
    THEN LET kept == SelectSeq(value.v, LAMBDA x : x.t \in {"str", "num"})
         IN  JStr(join(<<"\n">>, [i \in 1..Len(kept) |-> str(kept[i])]))
    ELSE JStr(str(value))

\* C8: normalize_code returns a string unchanged, joins the string and number
\* elements of a sequence with newlines and drops every other element (null,
\* boolean, nested sequence, mapping), maps null to no value, and gives the
\* textual representation of anything else.
C8_NormalizeAsStated ==
    pc = "normalized" => code_value = StatedNormalize(cur)

====
